---- MODULE Spec2Model ----
(***************************************************************************)
(* Model of the StickIt task dashboard (src/app.py).                       *)
(*                                                                         *)
(* The program is a Streamlit script: every user event runs the script     *)
(* from the top.  A run loads the collection from tasks.json (line 55),    *)
(* handles the sidebar form (59-78), renders the board, where the widget   *)
(* that carries the event fires its handler (107-163), and finally renders *)
(* the deadline warnings (166-178).  A handler that changes the collection *)
(* saves it and calls st.rerun(), which runs the script again without an   *)
(* event.  One action of the model is one user event handled to the end.   *)
(*                                                                         *)
(* Time is counted in ticks since 2025-01-01 00:00 local time; a day has   *)
(* TicksPerDay ticks.  A date object is the number of days since           *)
(* 2025-01-01; an ISO date string "YYYY-MM-DD" is the triple <<Y, M, D>>.  *)
(* A run is short against a tick: all calls of datetime.now() in one run   *)
(* read the same tick.  The wall clock is not bound to advance between two *)
(* runs, so two runs may read the same tick as well.                       *)
(*                                                                         *)
(* A write of tasks.json may fail (disk full, permission denied); the      *)
(* exception ends the run.  A run also ends early, with DuplicateWidgetID, *)
(* when the board reaches a task whose id it has rendered already.         *)
(***************************************************************************)
EXTENDS Integers, Sequences, FiniteSets, TLC

VARIABLES
    file,       \* tasks.json: [state: "missing" | "json" | "truncated", data]
    tasks,      \* the global list `tasks` of the script run that handled the last event
    now,        \* the wall clock, in ticks
    upcoming,   \* rows of the "Tasks due soon" frame shown by the last run
    overdue,    \* rows of the "Overdue Tasks" frame shown by the last run
    op,         \* the last event: the widget that fired and the values it carried
    outcome,    \* how the handler of the last event ended: "ok", "warning" (the
                \* name is required), "StorageError", or "none" (no handler ran)
    repeats,    \* how many events in a row, before the last one, were equal to it
    steps,      \* number of events handled so far
    faults      \* number of failed writes so far

vars == <<file, tasks, now, upcoming, overdue, op, outcome, repeats, steps, faults>>

----------------------------------------------------------------------------
(* Bounds of the model *)

MaxTasks == 2       \* tasks the collection may hold
MaxSteps == 3       \* user events in one behaviour
MaxNow == 3         \* ticks the clock may advance
MaxFaults == 1      \* failed writes in one behaviour
TicksPerDay == 2    \* clock readings per day (tick 0 of a day is midnight)

----------------------------------------------------------------------------
(* Constants of the program *)

status_names == <<"To Do", "In Progress", "Done">>

priority_names == <<"Low", "Medium", "High">>

WarnDays == 3

Range(s) == {s[i] : i \in DOMAIN s}

IndexOf(s, x) == CHOOSE i \in DOMAIN s : s[i] = x

----------------------------------------------------------------------------
(* Dates: str(date), pd.to_datetime(str) and datetime.date() *)

days_in_month == <<31, 28, 31, 30, 31, 30, 31, 31, 30, 31, 30, 31>>

RECURSIVE MonthDay(_, _)
MonthDay(doy, m) ==
    IF doy <= days_in_month[m] THEN <<m, doy>>
    ELSE MonthDay(doy - days_in_month[m], m + 1)

\* str(d) for a date d: the ISO string of the date d days after 2025-01-01
str_date(d) == LET md == MonthDay(d + 1, 1) IN <<2025, md[1], md[2]>>

RECURSIVE DaysBefore(_)
DaysBefore(m) == IF m = 1 THEN 0 ELSE DaysBefore(m - 1) + days_in_month[m - 1]

\* pd.to_datetime(s) for an ISO date string s: midnight of that day, in ticks
to_datetime(s) == (DaysBefore(s[2]) + s[3] - 1) * TicksPerDay

\* datetime.date(): the day a clock reading falls on
date_of(t) == t \div TicksPerDay

StartTick == 29 * TicksPerDay

----------------------------------------------------------------------------
(* Persistence *)

NoFile == [state |-> "missing", data |-> <<>>]

Truncated == [state |-> "truncated", data |-> <<>>]

\* json.load succeeds on the file, or the file does not exist
Loadable(f) == f.state # "truncated"

load_tasks(f) == IF f.state = "missing" THEN <<>> ELSE f.data

SaveResults == {"written", "open_failed", "write_failed"}

\* The file after save_tasks(ts): open(.., "w") truncates the file, json.dump
\* then writes the array.  A failure of open leaves the file as it was; a
\* failure after it leaves the truncated file.
save_tasks(f, ts, res) ==
    CASE res = "written" -> [state |-> "json", data |-> ts]
      [] res = "open_failed" -> f
      [] OTHER -> Truncated

----------------------------------------------------------------------------
(* The collection *)

\* add_task with the new task put first instead of last
add_task_first(ts, name, description, deadline, priority, attachment_path, clock) ==
    <<[id |-> clock,
       name |-> name,
       description |-> description,
       deadline |-> str_date(deadline),
       created |-> str_date(date_of(clock)),
       status |-> "To Do",
       priority |-> priority,
       attachment |-> attachment_path]>> \o ts

add_task(ts, name, description, deadline, priority, attachment_path, clock) ==
    Append(ts, [id |-> clock,
                name |-> name,
                description |-> description,
                deadline |-> str_date(deadline),
                created |-> str_date(date_of(clock)),
                status |-> "To Do",
                priority |-> priority,
                attachment |-> attachment_path])

\* filepath of the sidebar form: "" without an upload, else assets/<file.name>
filepath(upload) == IF upload = "" THEN "" ELSE "assets/spec.pdf"

\* edit_task that also moves the task back to the first column
edit_task_reset(ts, i, new_name, new_desc, new_deadline, new_priority) ==
    [ts EXCEPT ![i] = [@ EXCEPT !.name = new_name,
                                !.description = new_desc,
                                !.deadline = str_date(new_deadline),
                                !.priority = new_priority,
                                !.status = status_names[1]]]

edit_task(ts, i, new_name, new_desc, new_deadline, new_priority) ==
    [ts EXCEPT ![i] = [@ EXCEPT !.name = new_name,
                                !.description = new_desc,
                                !.deadline = str_date(new_deadline),
                                !.priority = new_priority]]

\* set_status that moves the task one column on instead of to the chosen one
set_status_next(ts, i, new_status) ==
    IF new_status # ts[i].status
    THEN [ts EXCEPT ![i].status =
              status_names[(IndexOf(status_names, ts[i].status) % Len(status_names)) + 1]]
    ELSE ts

set_status(ts, i, new_status) ==
    IF new_status # ts[i].status
    THEN [ts EXCEPT ![i].status = new_status]
    ELSE ts

\* list.remove(t): deletes the first element equal to t
remove_task(ts, t) ==
    LET j == CHOOSE k \in DOMAIN ts : ts[k] = t /\ \A l \in 1..(k - 1) : ts[l] # t
    IN  [k \in 1..(Len(ts) - 1) |-> IF k < j THEN ts[k] ELSE ts[k + 1]]

----------------------------------------------------------------------------
(* Rendering: the board (107-163) and the deadline warnings (166-178) *)

Indices(ts) == [i \in 1..Len(ts) |-> i]

\* the tasks of one board column, in list order
Column(ts, status) == SelectSeq(Indices(ts), LAMBDA i : ts[i].status = status)

\* the order in which the board loop reaches the tasks
RenderOrder(ts) ==
    Column(ts, status_names[1]) \o Column(ts, status_names[2]) \o Column(ts, status_names[3])

\* the widget keys of a task are built from its id alone (line 134): the run
\* stops with DuplicateWidgetID at the first task whose id was already rendered
CrashAt(ts, p) ==
    LET ro == RenderOrder(ts) IN \E q \in 1..(p - 1) : ts[ro[q]].id = ts[ro[p]].id

BoardCrashes(ts) == \E p \in 1..Len(ts) : CrashAt(ts, p)

\* the tasks whose widgets exist, so that an event can reach their handlers
Widgets(ts) ==
    LET ro == RenderOrder(ts)
    IN  {ro[p] : p \in {r \in 1..Len(ts) : \A q \in 1..r : ~CrashAt(ts, q)}}

\* Upcoming with the three days excluded at their end
UpcomingStrict(ts, clock) ==
    SelectSeq(Indices(ts),
              LAMBDA i : /\ to_datetime(ts[i].deadline) > clock
                         /\ to_datetime(ts[i].deadline) < clock + WarnDays * TicksPerDay)

Upcoming(ts, clock) ==
    SelectSeq(Indices(ts),
              LAMBDA i : /\ to_datetime(ts[i].deadline) > clock
                         /\ to_datetime(ts[i].deadline) <= clock + WarnDays * TicksPerDay)

Overdue(ts, clock) ==
    SelectSeq(Indices(ts), LAMBDA i : to_datetime(ts[i].deadline) < clock)

\* what a run that reaches its end leaves in the two frames
Shown(ts, clock) ==
    IF BoardCrashes(ts) THEN <<<<>>, <<>>>>
    ELSE <<Upcoming(ts, clock), Overdue(ts, clock)>>

----------------------------------------------------------------------------
(* Events *)

NoOp == [kind |-> "init", idx |-> 0, id |-> 0, name |-> "", description |-> "",
         deadline |-> 0, priority |-> "", attachment |-> "", status |-> ""]

\* values the sidebar form is submitted with on day `today`
CreateInputs(today) ==
    { [name |-> "Write spec", description |-> "", deadline |-> today,
       priority |-> "High", upload |-> ""],
      [name |-> "Review", description |-> "notes", deadline |-> today + 1,
       priority |-> "Low", upload |-> "spec.pdf"],
      [name |-> "Write spec", description |-> "notes", deadline |-> today + 10,
       priority |-> "Medium", upload |-> ""],
      [name |-> "", description |-> "notes", deadline |-> today,
       priority |-> "Low", upload |-> ""] }

\* values the edit widgets of task t are saved with: each widget starts at the
\* task's value (139-142) and the user changes none, one or all of them
EditInputs(t, today) ==
    LET cur == [name |-> t.name, description |-> t.description,
                deadline |-> date_of(to_datetime(t.deadline)), priority |-> t.priority]
    IN  {cur}
        \cup {[cur EXCEPT !.name = n] : n \in {"", "Plan"}}
        \cup {[cur EXCEPT !.description = "done soon"]}
        \cup {[cur EXCEPT !.deadline = d] : d \in {today - 1, today + 3}}
        \cup {[cur EXCEPT !.priority = p] : p \in Range(priority_names)}
        \cup {[name |-> "Plan", description |-> "done soon",
               deadline |-> today + 3, priority |-> "High"]}

\* a run that reaches its end without changing the collection
Unchanged(ts, o, result) ==
    /\ tasks' = ts
    /\ file' = file
    /\ outcome' = result
    /\ upcoming' = Shown(ts, now)[1]
    /\ overdue' = Shown(ts, now)[2]
    /\ op' = o
    /\ repeats' = IF o = op THEN repeats + 1 ELSE 0
    /\ steps' = steps + 1
    /\ UNCHANGED <<now, faults>>

\* the end of a handler that changed the collection to ts: save_tasks(tasks)
\* and st.rerun(), whose run loads the file again and renders it
Saved(ts, res, o) ==
    /\ res # "written" => faults < MaxFaults
    /\ file' = save_tasks(file, ts, res)
    /\ IF res = "written"
       THEN /\ tasks' = load_tasks(file')
            /\ outcome' = "ok"
            /\ upcoming' = Shown(tasks', now)[1]
            /\ overdue' = Shown(tasks', now)[2]
            /\ faults' = faults
       ELSE /\ tasks' = ts
            /\ outcome' = "StorageError"
            /\ upcoming' = <<>>
            /\ overdue' = <<>>
            /\ faults' = faults + 1
    /\ op' = o
    /\ repeats' = IF o = op THEN repeats + 1 ELSE 0
    /\ steps' = steps + 1
    /\ UNCHANGED now

\* CreateTask without the test of the name
CreateTaskAnyName(in, res) ==
    /\ steps < MaxSteps
    /\ Loadable(file)
    /\ LET ts == load_tasks(file)
       IN  /\ Len(ts) < MaxTasks
           /\ Saved(add_task(ts, in.name, in.description, in.deadline, in.priority,
                             filepath(in.upload), now), res,
                    [NoOp EXCEPT !.kind = "create", !.name = in.name,
                                 !.description = in.description, !.deadline = in.deadline,
                                 !.priority = in.priority,
                                 !.attachment = filepath(in.upload)])

\* "Create Task" of the sidebar form (59-78)
CreateTask(in, res) ==
    /\ steps < MaxSteps
    /\ Loadable(file)
    /\ LET ts == load_tasks(file)
           o == [NoOp EXCEPT !.kind = "create", !.name = in.name,
                             !.description = in.description, !.deadline = in.deadline,
                             !.priority = in.priority, !.attachment = filepath(in.upload)]
       IN  IF in.name # ""
           THEN /\ Len(ts) < MaxTasks
                /\ Saved(add_task(ts, in.name, in.description, in.deadline, in.priority,
                                  filepath(in.upload), now), res, o)
           ELSE /\ res = "written"
                /\ Unchanged(ts, o, "warning")

\* "Save Changes" of the task at position i (138-151)
EditTask(i, e, res) ==
    /\ steps < MaxSteps
    /\ Loadable(file)
    /\ LET ts == load_tasks(file)
       IN  /\ i \in Widgets(ts)
           /\ e \in EditInputs(ts[i], date_of(now))
           /\ Saved(edit_task(ts, i, e.name, e.description, e.deadline, e.priority), res,
                    [NoOp EXCEPT !.kind = "edit", !.idx = i, !.id = ts[i].id,
                                 !.name = e.name, !.description = e.description,
                                 !.deadline = e.deadline, !.priority = e.priority])

\* "Update Status" of the task at position i (153-157)
SetStatus(i, new_status, res) ==
    /\ steps < MaxSteps
    /\ Loadable(file)
    /\ LET ts == load_tasks(file)
       IN  /\ i \in Widgets(ts)
           /\ LET o == [NoOp EXCEPT !.kind = "setStatus", !.idx = i, !.id = ts[i].id,
                                    !.status = new_status]
              IN  IF new_status # ts[i].status
                  THEN Saved(set_status(ts, i, new_status), res, o)
                  ELSE /\ res = "written"
                       /\ Unchanged(ts, o, "ok")

\* "Delete Task" of the task at position i (159-163)
DeleteTask(i, res) ==
    /\ steps < MaxSteps
    /\ Loadable(file)
    /\ LET ts == load_tasks(file)
       IN  /\ i \in Widgets(ts)
           /\ Saved(remove_task(ts, ts[i]), res,
                    [NoOp EXCEPT !.kind = "delete", !.idx = i, !.id = ts[i].id])

StaleKinds == {"stale_edit", "stale_setStatus", "stale_delete"}

\* StaleRequest whose delete falls on the first task of the board instead
StaleRequestHits(kind, id) ==
    /\ steps < MaxSteps
    /\ Loadable(file)
    /\ LET ts == load_tasks(file)
       IN  /\ \A i \in 1..Len(ts) : ts[i].id # id
           /\ IF kind = "stale_delete" /\ ts # <<>>
              THEN Saved(Tail(ts), "written", [NoOp EXCEPT !.kind = kind, !.id = id])
              ELSE Unchanged(ts, [NoOp EXCEPT !.kind = kind, !.id = id], "none")

\* an event of a widget of a task that is no longer in the collection: the
\* board loop (110) renders no widget with that key, so no handler runs
StaleRequest(kind, id) ==
    /\ steps < MaxSteps
    /\ Loadable(file)
    /\ LET ts == load_tasks(file)
       IN  /\ \A i \in 1..Len(ts) : ts[i].id # id
           /\ Unchanged(ts, [NoOp EXCEPT !.kind = kind, !.id = id], "none")

\* a run without an event (the page is opened or reloaded)
Refresh ==
    /\ steps < MaxSteps
    /\ Loadable(file)
    /\ Unchanged(load_tasks(file), [NoOp EXCEPT !.kind = "refresh"], "ok")

\* any run while tasks.json does not parse: json.load raises at line 55
LoadFails ==
    /\ steps < MaxSteps
    /\ ~Loadable(file)
    /\ outcome' = "StorageError"
    /\ upcoming' = <<>>
    /\ overdue' = <<>>
    /\ op' = [NoOp EXCEPT !.kind = "load_failed"]
    /\ repeats' = IF op.kind = "load_failed" THEN repeats + 1 ELSE 0
    /\ steps' = steps + 1
    /\ UNCHANGED <<file, tasks, now, faults>>

\* the wall clock advances
Tick ==
    /\ now < StartTick + MaxNow
    /\ now' = now + 1
    /\ op' = [NoOp EXCEPT !.kind = "tick"]
    /\ repeats' = 0
    /\ UNCHANGED <<file, tasks, upcoming, overdue, outcome, steps, faults>>

Init ==
    /\ file = NoFile
    /\ tasks = <<>>
    /\ now = StartTick
    /\ upcoming = <<>>
    /\ overdue = <<>>
    /\ op = NoOp
    /\ outcome = "ok"
    /\ repeats = 0
    /\ steps = 0
    /\ faults = 0

Next ==
    \/ \E in \in CreateInputs(date_of(now)), res \in SaveResults : CreateTask(in, res)
    \/ \E i \in DOMAIN load_tasks(file), res \in SaveResults :
          \E e \in EditInputs(load_tasks(file)[i], date_of(now)) : EditTask(i, e, res)
    \/ \E i \in DOMAIN load_tasks(file), s \in Range(status_names), res \in SaveResults :
          SetStatus(i, s, res)
    \/ \E i \in DOMAIN load_tasks(file), res \in SaveResults : DeleteTask(i, res)
    \/ \E kind \in StaleKinds, id \in StartTick..now : StaleRequest(kind, id)
    \/ Refresh
    \/ LoadFails
    \/ Tick

Spec == Init /\ [][Next]_vars

----------------------------------------------------------------------------
(* The deadline warnings on their own: any stored collection, any time *)

\* deadlines from two days ago to twelve days ahead of the first day
DueDays == (date_of(StartTick) - 2)..(date_of(StartTick) + 12)

StoredTask(k, d) ==
    [id |-> StartTick - k, name |-> "Write spec", description |-> "",
     deadline |-> str_date(d), created |-> str_date(date_of(StartTick - k)),
     status |-> "To Do", priority |-> "High", attachment |-> ""]

StoredCollections ==
    UNION {[1..n -> DueDays] : n \in 0..MaxTasks}

InitWarn ==
    /\ \E ds \in StoredCollections :
          /\ tasks = [k \in DOMAIN ds |-> StoredTask(Len(ds) - k + 1, ds[k])]
          /\ file = [state |-> "json", data |-> tasks]
    /\ now = StartTick
    /\ upcoming = <<>>
    /\ overdue = <<>>
    /\ op = NoOp
    /\ outcome = "ok"
    /\ repeats = 0
    /\ steps = 0
    /\ faults = 0

NextWarn ==
    \/ Refresh
    \/ Tick

SpecWarn == InitWarn /\ [][NextWarn]_vars

----------------------------------------------------------------------------
(* Claims *)

Stored == load_tasks(file)

\* C1: a create with a non-empty name that completes leaves, on loading the
\* file, the previous collection with one task appended at the end; the task
\* has the name, description, priority and attachment path given, a deadline
\* string that reads back as the date given, status To Do and the current
\* date as created; the tasks stored before keep their values and places.
C1_CreateAppends ==
    [][ (op'.kind = "create" /\ op'.name # "" /\ outcome' = "ok") =>
          LET old == load_tasks(file)
              new == load_tasks(file')
          IN  /\ Loadable(file')
              /\ Len(new) = Len(old) + 1
              /\ SubSeq(new, 1, Len(old)) = old
              /\ new[Len(new)].name = op'.name
              /\ new[Len(new)].description = op'.description
              /\ date_of(to_datetime(new[Len(new)].deadline)) = op'.deadline
              /\ new[Len(new)].priority = op'.priority
              /\ new[Len(new)].attachment = op'.attachment
              /\ new[Len(new)].status = "To Do"
              /\ date_of(to_datetime(new[Len(new)].created)) = date_of(now')
              /\ tasks' = new ]_vars

C1_Witness ==
    /\ op.kind = "create"
    /\ outcome = "ok"
    /\ Len(Stored) = 2
    /\ Stored[2].attachment = "assets/spec.pdf"
    /\ Stored[2].name = "Review"
    /\ Stored[1].name = "Write spec"

\* C2: no two tasks of the collection, in memory or in the file, have the same id.
C2_UniqueIds ==
    /\ \A i, j \in DOMAIN tasks : i # j => tasks[i].id # tasks[j].id
    /\ \A i, j \in DOMAIN Stored : i # j => Stored[i].id # Stored[j].id

\* C3: every task, in memory and in the file, has a non-empty name.
C3_NameNonEmpty ==
    /\ \A i \in DOMAIN tasks : tasks[i].name # ""
    /\ \A i \in DOMAIN Stored : Stored[i].name # ""

\* C4: a create with an empty name ends with the "Task name required" warning,
\* appends nothing and saves nothing: the file and the collection in memory
\* are what the run loaded.
C4_EmptyNameRejected ==
    [][ (op'.kind = "create" /\ op'.name = "") =>
          /\ outcome' = "warning"
          /\ file' = file
          /\ tasks' = load_tasks(file) ]_vars

C4_Witness ==
    /\ op.kind = "create"
    /\ op.name = ""
    /\ outcome = "warning"
    /\ Len(tasks) = 1

\* C5: an edit of the task at a position that completes leaves, on loading the
\* file, that task with the name, description and priority given and a deadline
\* that reads back as the date given; a widget left at the task's value leaves
\* the field as it was stored; id, created, status and attachment of the task,
\* every other task, the number of tasks and their order are unchanged.
C5_EditFrame ==
    [][ (op'.kind = "edit" /\ outcome' = "ok") =>
          LET old == load_tasks(file)
              new == load_tasks(file')
              i == op'.idx
          IN  /\ Len(new) = Len(old)
              /\ \A k \in DOMAIN old : k # i => new[k] = old[k]
              /\ new[i].id = op'.id /\ old[i].id = op'.id
              /\ new[i].created = old[i].created
              /\ new[i].status = old[i].status
              /\ new[i].attachment = old[i].attachment
              /\ new[i].name = op'.name
              /\ new[i].description = op'.description
              /\ new[i].priority = op'.priority
              /\ date_of(to_datetime(new[i].deadline)) = op'.deadline
              /\ (op'.deadline = date_of(to_datetime(old[i].deadline))
                    => new[i].deadline = old[i].deadline)
              /\ tasks' = new ]_vars

C5_Witness ==
    /\ op.kind = "edit"
    /\ outcome = "ok"
    /\ Len(Stored) = 2
    /\ op.idx = 1
    /\ Stored[1].priority = "Medium"
    /\ Stored[1].name = "Write spec"
    /\ Stored[1].description = ""

\* C6: a delete that completes leaves, on loading the file, no task with the
\* id of the deleted task, and otherwise the other tasks of the previous
\* collection, unchanged and in the same order.
C6_DeleteRemovesId ==
    [][ (op'.kind = "delete" /\ outcome' = "ok") =>
          LET old == load_tasks(file)
              new == load_tasks(file')
              i == op'.idx
          IN  /\ \A k \in DOMAIN new : new[k].id # op'.id
              /\ Len(new) = Len(old) - 1
              /\ \A k \in DOMAIN new : new[k] = IF k < i THEN old[k] ELSE old[k + 1] ]_vars

C8_Idempotent ==
    [][ (op' = op /\ op.kind \in {"setStatus", "edit"}
           /\ outcome = "ok" /\ outcome' = "ok") =>
          (file' = file /\ tasks' = tasks) ]_vars

C8_Witness ==
    /\ op.kind = "setStatus"
    /\ op.status = "Done"
    /\ repeats = 1
    /\ outcome = "ok"
    /\ tasks[op.idx].status = "Done"

\* C9: after every step the file holds the complete collection it held before
\* or the complete collection just saved, and loads.
C9_AtomicSave ==
    [][ /\ Loadable(file')
        /\ \/ load_tasks(file') = load_tasks(file)
           \/ load_tasks(file') = tasks' ]_vars

\* C10: after a run the "due soon" frame holds exactly the tasks whose deadline
\* (midnight of the deadline date) lies after the current time and at most
\* three days after it, the "overdue" frame exactly those whose deadline lies
\* before the current time, and no task is in both.
C10_Deadlines ==
    op.kind = "refresh" =>
      /\ \A i \in DOMAIN tasks : \A d \in 0..(date_of(StartTick) + 12) :
            tasks[i].deadline = str_date(d) =>
              /\ i \in Range(upcoming) <=>
                    (d * TicksPerDay > now /\ d * TicksPerDay <= now + 3 * TicksPerDay)
              /\ i \in Range(overdue) <=> (d * TicksPerDay < now)
      /\ Range(upcoming) \cap Range(overdue) = {}
      /\ Range(upcoming) \cup Range(overdue) \subseteq DOMAIN tasks

C10_Witness ==
    /\ op.kind = "refresh"
    /\ Len(tasks) = 2
    /\ tasks[1].deadline = str_date(date_of(now) + 1)
    /\ tasks[2].deadline = str_date(date_of(now) + 10)
    /\ upcoming = <<1>>
    /\ overdue = <<>>
    /\ now > StartTick

====
